---- MODULE Spec2Model ----
(***************************************************************************)
(* SolarEdge integration: the per-feed update-interval controller          *)
(* (SolarEdgeDataService), the feed fetch-and-parse routines, the sensor   *)
(* factory that broadcasts sunrise/sunset transitions, and the polling     *)
(* timer of a feed.                                                        *)
(*                                                                         *)
(* Durations are integers counted in the resolution of timedelta (the      *)
(* smallest representable step).  Python counts microseconds; the model    *)
(* counts Day of them to a day.  Call budgets (round(x, ndigits=5)) are    *)
(* integers counted in 1/Scale5.                                           *)
(***************************************************************************)
EXTENDS Integers, Sequences, FiniteSets, TLC

VARIABLES
    service,        \* SpecCtl: one SolarEdgeDataService
    calls,          \* SpecCtl: the last two recalculate calls that returned
    feed,           \* SpecFetch: one feed's snapshot (data, attributes, unit)
    last_update,    \* SpecFetch: the last update() call and how it ended
    entry,          \* SpecReg: the config entry's data
    all_services,   \* SpecReg: SolarEdgeSensorFactory.all_services
    sun,            \* SpecReg: is_up and the time to the next sunrise, sunset
    tasks,          \* SpecReg: the setup pass and the sun callbacks started
    entities,       \* SpecReg: whether async_add_entities was called
    poll,           \* SpecSched: one feed, its timer, the sun and the fetch log
    job,            \* SpecParse: the update() call running on the executor
    seen            \* SpecParse: what a sensor last read from the feed

vars == <<service, calls, feed, last_update, entry, all_services, sun, tasks,
          entities, poll, job, seen>>

ctlVars == <<service, calls>>
fetchVars == <<feed, last_update>>
regVars == <<entry, all_services, sun, tasks, entities>>
schedVars == <<poll>>
parseVars == <<job, seen>>

----------------------------------------------------------------------------
(* Bounds of the model *)

\* timedelta(days=1), counted in the resolution of timedelta.  Python's day
\* has 86400000000 microseconds; the model's day is shorter so that every
\* duration, interval and remainder fits the model checker's integers.
Day == 86400000

\* recalculate is tried with durations 0..MaxShort, Day-MaxShort..Day and
\* the sample durations
MaxShort == 6

\* a skew ratio (a float) is k/RatioDen, 0 < k < RatioDen
RatioDen == 10

\* round(x, ndigits=5)
Ndigits == 5

None == <<>>

DailyLimits == {5, 10}

Ratios == 1..(RatioDen - 1)

\* the durations of test_data_service: 500 and 940 minutes
SampleDurations == {(Day \div 1440) * 500, Day - (Day \div 1440) * 500}

Durations ==
    (0..MaxShort) \cup {Day - d : d \in 0..MaxShort} \cup SampleDurations

----------------------------------------------------------------------------
(* Arithmetic of timedelta and round *)

RECURSIVE Pow10(_)
Pow10(n) == IF n = 0 THEN 1 ELSE 10 * Pow10(n - 1)

\* budgets and update counts are counted in 1/Scale5
Scale5 == Pow10(Ndigits)

\* quotient and remainder of a * 10^n by b, one decimal digit at a time
RECURSIVE ScaledQuotient(_, _, _)
ScaledQuotient(a, n, b) ==
    IF n = 0
    THEN <<a \div b, a % b>>
    ELSE LET p == ScaledQuotient(a, n - 1, b)
         IN  <<p[1] * 10 + (p[2] * 10) \div b, (p[2] * 10) % b>>

\* a * 10^n / b rounded to the nearest integer, ties to the even one: what
\* timedelta / number (n = 0) and round(a / b, ndigits=n) do with the exact
\* quotient
DivideAndRound(a, n, b) ==
    LET p == ScaledQuotient(a, n, b)
        q == p[1]
        r == p[2]
    IN  IF 2 * r > b \/ (2 * r = b /\ q % 2 = 1) THEN q + 1 ELSE q

\* timedelta(days=1) / self.daily_update_limit
FlatInterval(daily_update_limit) == DivideAndRound(Day, 0, daily_update_limit)

\* update_limit = round(ratio * limit, 5) or round((1 - ratio) * limit, 5),
\* counted in 1/Scale5; ratio is the numerator over RatioDen
UpdateLimit(ratio, daily_update_limit, daylight) ==
    IF daylight
    THEN DivideAndRound(ratio * daily_update_limit, Ndigits, RatioDen)
    ELSE DivideAndRound((RatioDen - ratio) * daily_update_limit, Ndigits,
                        RatioDen)

\* duration / update_limit, a timedelta divided by a float: the update limit
\* is update_limit5 / 10^5
SkewedInterval(duration, update_limit5) ==
    DivideAndRound(duration, Ndigits, update_limit5)

\* round(duration / interval, ndigits=5), counted in 1/Scale5; interval > 0
UpdateCount(duration, interval) == DivideAndRound(duration, Ndigits, interval)

----------------------------------------------------------------------------
(* SolarEdgeDataService *)

\* __init__: ratio 0 stands for None (no skew ratio configured)
NewService(daily_update_limit, daylight_update_limit_ratio) ==
    [ daily_update_limit |-> daily_update_limit,
      daylight_update_limit_ratio |-> daylight_update_limit_ratio,
      current_update_interval |-> FlatInterval(daily_update_limit),
      coordinator |-> None ]

\* async_setup: the coordinator is created with the current interval
async_setup(self) ==
    [self EXCEPT !.coordinator =
        <<[update_interval |-> self.current_update_interval]>>]

\* a mutant: every service is treated as having a ratio
RatioUnsetNever(self) == FALSE

\* if not self.daylight_update_limit_ratio
RatioUnset(self) == self.daylight_update_limit_ratio = 0

\* a mutant: only the zero duration is degenerate
IsDegenerateZeroOnly(duration) == duration = 0

\* duration == timedelta(days=1) or duration == timedelta(0)
IsDegenerate(duration) == duration = Day \/ duration = 0

\* a mutant: the interval is recorded locally and not pushed
PushIntervalDropped(self) == self

\* self.coordinator.update_interval = self.current_update_interval
PushInterval(self) ==
    [self EXCEPT !.coordinator =
        <<[update_interval |-> self.current_update_interval]>>]

\* a mutant: a recalculation never lengthens the interval in effect
NewIntervalNeverLonger(self, duration, daylight) ==
    LET new == IF IsDegenerate(duration)
               THEN FlatInterval(self.daily_update_limit)
               ELSE SkewedInterval(duration,
                        UpdateLimit(self.daylight_update_limit_ratio,
                                    self.daily_update_limit, daylight))
    IN  IF new < self.current_update_interval
        THEN new
        ELSE self.current_update_interval

\* lines 67-81: the interval assigned to self.current_update_interval
NewInterval(self, duration, daylight) ==
    IF IsDegenerate(duration)
    THEN FlatInterval(self.daily_update_limit)
    ELSE SkewedInterval(duration,
            UpdateLimit(self.daylight_update_limit_ratio,
                        self.daily_update_limit, daylight))

\* duration / update_limit raises ZeroDivisionError, before the interval is
\* assigned
DivisionRaises(self, duration, daylight) ==
    /\ ~IsDegenerate(duration)
    /\ UpdateLimit(self.daylight_update_limit_ratio,
                   self.daily_update_limit, daylight) = 0

\* recalculate_update_interval raises: the division, or AttributeError on
\* self.coordinator.update_interval while the coordinator is None
RecalculateRaises(self, duration, daylight) ==
    /\ ~RatioUnset(self)
    /\ \/ DivisionRaises(self, duration, daylight)
       \/ self.coordinator = None

\* recalculate_update_interval(duration, daylight): the service afterwards
recalculate_update_interval(self, duration, daylight) ==
    IF RatioUnset(self) \/ DivisionRaises(self, duration, daylight)
    THEN self
    ELSE LET assigned == [self EXCEPT !.current_update_interval =
                            NewInterval(self, duration, daylight)]
         IN  IF self.coordinator = None
             THEN assigned
             ELSE PushInterval(assigned)

----------------------------------------------------------------------------
(* SpecCtl: one service under any sequence of recalculate calls *)

\* a component that takes no part in a specification stands still
CtlIdle == service = None /\ calls = <<>>

FetchIdle == feed = None /\ last_update = None

RegIdle ==
    /\ entry = None /\ all_services = <<>> /\ sun = None /\ tasks = <<>>
    /\ entities = FALSE

SchedIdle == poll = None

ParseIdle == job = None /\ seen = None

CtlOnly == UNCHANGED <<fetchVars, regVars, schedVars, parseVars>>

\* the most recent element of a sequence, as a sequence
LastOne(s) == IF s = <<>> THEN <<>> ELSE <<s[Len(s)]>>

CtlInit ==
    /\ FetchIdle /\ RegIdle /\ SchedIdle /\ ParseIdle
    /\ \E l \in DailyLimits, r \in {0} \cup Ratios : service = NewService(l, r)
    /\ calls = <<>>

CtlSetup ==
    /\ service.coordinator = None
    /\ service' = async_setup(service)
    /\ UNCHANGED calls
    /\ CtlOnly

\* a call is recorded with the interval held when it returned
CtlRecalculate ==
    /\ service.coordinator # None
    /\ \E duration \in Durations, daylight \in BOOLEAN :
        /\ service' = recalculate_update_interval(service, duration, daylight)
        /\ calls' = LastOne(calls) \o
                    <<[ duration |-> duration, daylight |-> daylight,
                        interval |-> service'.current_update_interval ]>>
    /\ CtlOnly

CtlNext == CtlSetup \/ CtlRecalculate

SpecCtl == CtlInit /\ [][CtlNext]_vars

----------------------------------------------------------------------------
(* Feed fetch-and-parse: the update() methods *)

\* a dict is a function on its keys; a dict whose order matters (one that is
\* iterated) is the sequence of its items <<key, value>>
EmptyDict == [k \in {} |-> 0]

Put(d, k, v) == [x \in DOMAIN d \cup {k} |-> IF x = k THEN v ELSE d[x]]

HasKey(items, k) == \E i \in DOMAIN items : items[i][1] = k

GetItem(items, k) ==
    items[CHOOSE i \in DOMAIN items : items[i][1] = k][2]

\* str.lower() on the names the power flow response uses
Lower(name) ==
    CASE name = "GRID" -> "grid"
      [] name = "Grid" -> "grid"
      [] name = "LOAD" -> "load"
      [] name = "Load" -> "load"
      [] name = "PV" -> "pv"
      [] name = "STORAGE" -> "storage"
      [] name = "Storage" -> "storage"
      [] OTHER -> name

\* SolarEdgeDataService.__init__ (data, attributes) and the subclasses that
\* add unit, which is None or <<the unit>>
NewFeed(kind) ==
    [ kind |-> kind, data |-> EmptyDict, attributes |-> EmptyDict,
      unit |-> None ]

EnergyKeys == {"lifeTimeData", "lastYearData", "lastMonthData", "lastDayData"}

\* the for loop of SolarEdgeOverviewDataService.update over overview.items()
RECURSIVE OverviewItems(_, _)
OverviewItems(self, items) ==
    IF items = <<>>
    THEN [self |-> self, outcome |-> "ok"]
    ELSE LET key == Head(items)[1]
             value == Head(items)[2]
         IN  IF key \in EnergyKeys
             THEN IF "energy" \in DOMAIN value
                  THEN OverviewItems(
                        [self EXCEPT !.data = Put(@, key, value["energy"])],
                        Tail(items))
                  ELSE [self |-> self, outcome |-> "KeyError"]
             ELSE IF key = "currentPower"
             THEN IF "power" \in DOMAIN value
                  THEN OverviewItems(
                        [self EXCEPT !.data = Put(@, key, value["power"])],
                        Tail(items))
                  ELSE [self |-> self, outcome |-> "KeyError"]
             ELSE OverviewItems([self EXCEPT !.data = Put(@, key, value)],
                                Tail(items))

\* SolarEdgeOverviewDataService.update with the response of get_overview
OverviewUpdate(self, response) ==
    IF "overview" \notin DOMAIN response
    THEN [self |-> self, outcome |-> "UpdateFailed"]
    ELSE OverviewItems([self EXCEPT !.data = EmptyDict], response["overview"])

\* for connection in power_flow["connections"]: power_to.append(...); a
\* connection without "from" or "to" raises KeyError
ConnectionsComplete(connections) ==
    \A i \in DOMAIN connections :
        {"from", "to"} \subseteq DOMAIN connections[i]

PowerTo(connections) ==
    {Lower(connections[i]["to"]) : i \in DOMAIN connections}

\* if key in [LOAD, PV, GRID, STORAGE]: data and the status attribute
FlowElement(self, key, value) ==
    IF key \notin {"LOAD", "PV", "GRID", "STORAGE"}
    THEN [self |-> self, outcome |-> "ok"]
    ELSE IF "currentPower" \notin DOMAIN value
    THEN [self |-> self, outcome |-> "KeyError"]
    ELSE LET set == [self EXCEPT !.data = Put(@, key, value["currentPower"])]
         IN  IF "status" \notin DOMAIN value
             THEN [self |-> set, outcome |-> "KeyError"]
             ELSE [self |-> [set EXCEPT !.attributes =
                                Put(@, key, [status |-> value["status"]])],
                   outcome |-> "ok"]

\* if key in [GRID]: the sign of export and the flow attribute
FlowGrid(self, key, power_to) ==
    IF key # "GRID"
    THEN self
    ELSE LET export == Lower(key) \in power_to
         IN  [self EXCEPT
                !.data[key] = @ * (IF export THEN -1 ELSE 1),
                !.attributes[key] =
                    Put(@, "flow", IF export THEN "export" ELSE "import")]

\* if key in [STORAGE]: the sign of charge, the flow and soc attributes
FlowStorage(self, key, value, power_to) ==
    IF key # "STORAGE"
    THEN [self |-> self, outcome |-> "ok"]
    ELSE LET charge == Lower(key) \in power_to
             flowed == [self EXCEPT
                !.data[key] = @ * (IF charge THEN -1 ELSE 1),
                !.attributes[key] =
                    Put(@, "flow", IF charge THEN "charge" ELSE "discharge")]
         IN  IF "chargeLevel" \notin DOMAIN value
             THEN [self |-> flowed, outcome |-> "KeyError"]
             ELSE [self |-> [flowed EXCEPT !.attributes[key] =
                                Put(@, "soc", value["chargeLevel"])],
                   outcome |-> "ok"]

\* the for loop of SolarEdgePowerFlowDataService.update over
\* power_flow.items()
RECURSIVE FlowItems(_, _, _)
FlowItems(self, items, power_to) ==
    IF items = <<>>
    THEN [self |-> self, outcome |-> "ok"]
    ELSE LET key == Head(items)[1]
             value == Head(items)[2]
             element == FlowElement(self, key, value)
         IN  IF element.outcome # "ok"
             THEN element
             ELSE LET storage == FlowStorage(
                        FlowGrid(element.self, key, power_to),
                        key, value, power_to)
                  IN  IF storage.outcome # "ok"
                      THEN storage
                      ELSE FlowItems(storage.self, Tail(items), power_to)

\* SolarEdgePowerFlowDataService.update with the response of
\* get_current_power_flow
PowerFlowUpdate(self, response) ==
    IF "siteCurrentPowerFlow" \notin DOMAIN response
    THEN [self |-> self, outcome |-> "UpdateFailed"]
    ELSE LET power_flow == response["siteCurrentPowerFlow"]
         IN  IF ~HasKey(power_flow, "connections")
             THEN [self |-> self, outcome |-> "ok"]
             ELSE IF ~ConnectionsComplete(GetItem(power_flow, "connections"))
             THEN [self |-> self, outcome |-> "KeyError"]
             ELSE LET cleared == [self EXCEPT !.data = EmptyDict,
                                              !.attributes = EmptyDict]
                  IN  IF ~HasKey(power_flow, "unit")
                      THEN [self |-> cleared, outcome |-> "KeyError"]
                      ELSE FlowItems(
                            [cleared EXCEPT
                                !.unit = <<GetItem(power_flow, "unit")>>],
                            power_flow,
                            PowerTo(GetItem(power_flow, "connections")))

MeterTypes ==
    {"Production", "SelfConsumption", "FeedIn", "Purchased", "Consumption"}

\* the for loop of SolarEdgeEnergyDetailsService.update over
\* energy_details["meters"]; values[0] of an empty list raises IndexError
RECURSIVE MeterItems(_, _)
MeterItems(self, meters) ==
    IF meters = <<>>
    THEN [self |-> self, outcome |-> "ok"]
    ELSE LET meter == Head(meters)
         IN  IF "type" \notin DOMAIN meter \/ "values" \notin DOMAIN meter
             THEN MeterItems(self, Tail(meters))
             ELSE IF meter["type"] \notin MeterTypes
             THEN MeterItems(self, Tail(meters))
             ELSE IF meter["values"] = <<>>
             THEN [self |-> self, outcome |-> "IndexError"]
             ELSE LET first == meter["values"][1]
                  IN  IF Cardinality(DOMAIN first) # 2
                      THEN MeterItems(self, Tail(meters))
                      ELSE IF "value" \notin DOMAIN first
                      THEN [self |-> self, outcome |-> "KeyError"]
                      ELSE LET set == [self EXCEPT !.data =
                                    Put(@, meter["type"], first["value"])]
                           IN  IF "date" \notin DOMAIN first
                               THEN [self |-> set, outcome |-> "KeyError"]
                               ELSE MeterItems(
                                    [set EXCEPT !.attributes =
                                        Put(@, meter["type"],
                                            [date |-> first["date"]])],
                                    Tail(meters))

\* a mutant: the snapshot is cleared before "meters" is looked for
EnergyDetailsUpdateClearsFirst(self, response) ==
    IF "energyDetails" \notin DOMAIN response
    THEN [self |-> self, outcome |-> "UpdateFailed"]
    ELSE LET energy_details == response["energyDetails"]
             cleared == [self EXCEPT !.data = EmptyDict,
                                     !.attributes = EmptyDict]
         IN  IF ~HasKey(energy_details, "meters")
             THEN [self |-> cleared, outcome |-> "ok"]
             ELSE IF ~HasKey(energy_details, "unit")
             THEN [self |-> cleared, outcome |-> "KeyError"]
             ELSE MeterItems(
                    [cleared EXCEPT
                        !.unit = <<GetItem(energy_details, "unit")>>],
                    GetItem(energy_details, "meters"))

\* SolarEdgeEnergyDetailsService.update with the response of
\* get_energy_details
EnergyDetailsUpdate(self, response) ==
    IF "energyDetails" \notin DOMAIN response
    THEN [self |-> self, outcome |-> "UpdateFailed"]
    ELSE LET energy_details == response["energyDetails"]
         IN  IF ~HasKey(energy_details, "meters")
             THEN [self |-> self, outcome |-> "ok"]
             ELSE LET cleared == [self EXCEPT !.data = EmptyDict,
                                              !.attributes = EmptyDict]
                  IN  IF ~HasKey(energy_details, "unit")
                      THEN [self |-> cleared, outcome |-> "KeyError"]
                      ELSE MeterItems(
                            [cleared EXCEPT
                                !.unit = <<GetItem(energy_details, "unit")>>],
                            GetItem(energy_details, "meters"))

\* update() of the feed's class
Update(self, response) ==
    IF self.kind = "overview"
    THEN OverviewUpdate(self, response)
    ELSE IF self.kind = "energy_details"
    THEN EnergyDetailsUpdate(self, response)
    ELSE PowerFlowUpdate(self, response)

----------------------------------------------------------------------------
(* SpecFetch: one feed under any sequence of upstream responses *)

Energies == {0, 1}

\* the nested mapping of an energy key, with or without "energy"
EnergyValues == {EmptyDict} \cup {[energy |-> e] : e \in Energies}

PowerValues == {EmptyDict, [power |-> 0]}

\* what get_overview may return: no "overview" key, or the five keys of the
\* tests' mock_overview_data in their order
OverviewResponses ==
    {EmptyDict} \cup
    { [overview |-> << <<"lifeTimeData", a>>, <<"lastYearData", b>>,
                       <<"lastMonthData", c>>, <<"lastDayData", d>>,
                       <<"currentPower", p>> >>] :
        a \in EnergyValues, b \in EnergyValues, c \in EnergyValues,
        d \in EnergyValues, p \in PowerValues }

UnitItems == {<<>>, << <<"unit", "W">> >>}

ConnectionLists ==
    { <<>>,
      <<[from |-> "GRID", to |-> "Load"]>>,
      <<[from |-> "LOAD", to |-> "Grid"], [from |-> "PV", to |-> "Storage"]>>,
      <<[from |-> "PV"]>> }

ConnectionItems ==
    {<<>>} \cup {<< <<"connections", c>> >> : c \in ConnectionLists}

GridItems ==
    {<<>>} \cup
    { << <<"GRID", v>> >> :
        v \in { [status |-> "Active", currentPower |-> 2],
                [currentPower |-> 2],
                [status |-> "Active"] } }

StorageItems ==
    {<<>>} \cup
    { << <<"STORAGE", v>> >> :
        v \in { [status |-> "Idle", currentPower |-> 1, chargeLevel |-> 50],
                [status |-> "Idle", currentPower |-> 1] } }

\* what get_current_power_flow may return
PowerFlowResponses ==
    {EmptyDict} \cup
    { [siteCurrentPowerFlow |-> u \o c \o g \o st] :
        u \in UnitItems, c \in ConnectionItems, g \in GridItems,
        st \in StorageItems }

EnergyUnitItems == {<<>>, << <<"unit", "Wh">> >>}

MeterLists ==
    { <<>>,
      <<[type |-> "Production",
         values |-> <<[date |-> "today", value |-> 1]>>]>>,
      <<[type |-> "Purchased",
         values |-> <<[date |-> "today", value |-> 2]>>],
        [type |-> "FeedIn", values |-> <<[date |-> "today"]>>]>>,
      <<[values |-> <<[date |-> "today", value |-> 3]>>],
        [type |-> "Consumption", values |-> <<>>]>> }

MeterListItems == {<<>>} \cup {<< <<"meters", l>> >> : l \in MeterLists}

\* what get_energy_details may return
EnergyDetailsResponses ==
    {EmptyDict} \cup
    { [energyDetails |-> << <<"timeUnit", "DAY">> >> \o u \o l] :
        u \in EnergyUnitItems, l \in MeterListItems }

FetchOnly == UNCHANGED <<ctlVars, regVars, schedVars, parseVars>>

FetchInit ==
    /\ CtlIdle /\ RegIdle /\ SchedIdle /\ ParseIdle
    /\ feed \in {NewFeed("overview"), NewFeed("power_flow"),
                 NewFeed("energy_details")}
    /\ last_update = None

\* one update() call, recorded with the snapshot it found and how it ended
Fetched(response) ==
    LET result == Update(feed, response)
    IN  /\ feed' = result.self
        /\ last_update' = <<[ response |-> response, before |-> feed,
                              outcome |-> result.outcome ]>>

FetchOverview ==
    /\ feed.kind = "overview"
    /\ \E response \in OverviewResponses : Fetched(response)
    /\ FetchOnly

FetchPowerFlow ==
    /\ feed.kind = "power_flow"
    /\ \E response \in PowerFlowResponses : Fetched(response)
    /\ FetchOnly

FetchEnergyDetails ==
    /\ feed.kind = "energy_details"
    /\ \E response \in EnergyDetailsResponses : Fetched(response)
    /\ FetchOnly

FetchNext == FetchOverview \/ FetchPowerFlow \/ FetchEnergyDetails

SpecFetch == FetchInit /\ [][FetchNext]_vars

----------------------------------------------------------------------------
(* SpecParse: the overview update() running on an executor thread, one     *)
(* statement at a time, while sensors read the feed on the event loop      *)

ParseOnly == UNCHANGED <<ctlVars, regVars, schedVars, last_update>>

ParseInit ==
    /\ CtlIdle /\ RegIdle /\ SchedIdle /\ ParseIdle
    /\ feed = NewFeed("overview")
    /\ last_update = None

Running == job # None /\ job.pc \in {"clear", "loop"}

\* async_update_data: hass.async_add_executor_job(self.update).  The
\* thread runs lines 98-102: the response, and data["overview"] or
\* UpdateFailed.  One update of a feed runs at a time.
ParseStart ==
    /\ ~Running
    /\ \E response \in OverviewResponses :
        job' = [ response |-> response, before |-> feed,
                 items |-> IF "overview" \in DOMAIN response
                           THEN response["overview"]
                           ELSE <<>>,
                 pc |-> IF "overview" \in DOMAIN response
                        THEN "clear"
                        ELSE "UpdateFailed" ]
    /\ seen' = None
    /\ UNCHANGED feed
    /\ ParseOnly

\* line 104: self.data = {}
ParseClear ==
    /\ Running /\ job.pc = "clear"
    /\ feed' = [feed EXCEPT !.data = EmptyDict]
    /\ job' = [job EXCEPT !.pc = "loop"]
    /\ UNCHANGED seen
    /\ ParseOnly

\* lines 106-113: one iteration of the loop over overview.items(), or its
\* end
ParseItem ==
    /\ Running /\ job.pc = "loop"
    /\ IF job.items = <<>>
       THEN /\ job' = [job EXCEPT !.pc = "ok"]
            /\ UNCHANGED feed
       ELSE LET step == OverviewItems(feed, <<Head(job.items)>>)
            IN  /\ feed' = step.self
                /\ job' = [job EXCEPT
                            !.items = Tail(@),
                            !.pc = IF step.outcome = "ok"
                                   THEN "loop"
                                   ELSE step.outcome]
    /\ UNCHANGED seen
    /\ ParseOnly

\* SolarEdgeOverviewSensor.native_value on the event loop:
\* self.data_service.data, at any moment of an update or after it
Read ==
    /\ job # None
    /\ seen' = <<feed.data>>
    /\ UNCHANGED <<feed, job>>
    /\ ParseOnly

ParseNext == ParseStart \/ ParseClear \/ ParseItem \/ Read

SpecParse == ParseInit /\ [][ParseNext]_vars

----------------------------------------------------------------------------
(* SpecReg: async_setup_entry and SolarEdgeSensorFactory *)

\* the sun callbacks that fire in one behaviour
MaxSunEvents == 2

\* all_services = (details, overview, inventory, flow, energy)
ServiceNames == <<"details", "overview", "inventory", "flow", "energy">>

\* the services constructed with LIMIT_WHILE_DAYLIGHT_RATIO
RatioServices == {"overview", "flow", "energy"}

Minute == Day \div 1440

\* the lengths of a daylight and of a dark period: together a whole day, or
\* a minute less
DayLengths == {480 * Minute}

NightLengths == {959 * Minute, 960 * Minute}

\* the daily limit the factory gives its services
FactoryLimits == {5}

\* LIMIT_WHILE_DAYLIGHT_RATIO, the larger share going to daylight
FactoryRatios == {RatioDen - 1}

\* how long before the next sun event async_setup_entry may run
Remaining == {3, 120 * Minute}

\* SolarEdgeSensorFactory.__init__: the five services; every limit is
\* daily_update_limit, and ratio is LIMIT_WHILE_DAYLIGHT_RATIO
NewFactory(daily_update_limit, ratio) ==
    [ i \in DOMAIN ServiceNames |->
        NewService(daily_update_limit,
                   IF ServiceNames[i] \in RatioServices THEN ratio ELSE 0) ]

\* get_event_duration(event): get_astral_event_next(event) - utcnow()
get_event_duration(event) ==
    IF event = "sunset" THEN sun.to_sunset ELSE sun.to_sunrise

\* a mutant: the refresh of a service is not requested
VisitWithoutRefresh(task, services, i) ==
    LET made == IF task.kind = "setup"
                THEN async_setup(services[i])
                ELSE services[i]
    IN  [ services |-> [services EXCEPT ![i] =
                recalculate_update_interval(made, task.duration,
                                            task.daylight)],
          task |-> [task EXCEPT !.i = i, !.pc = "awaiting",
                       !.log = Append(@, <<"recalculate", i>>)] ]

\* one iteration of the loop over all_services, up to the await of
\* async_refresh: async_setup (the setup pass only), recalculate, and the
\* refresh request.  A callback that meets a service whose coordinator is
\* still None ends with AttributeError.
Visit(task, services, i) ==
    LET made == IF task.kind = "setup"
                THEN async_setup(services[i])
                ELSE services[i]
        after == recalculate_update_interval(made, task.duration,
                                             task.daylight)
        raised == \/ RecalculateRaises(made, task.duration, task.daylight)
                  \/ made.coordinator = None
        called == Append(task.log, <<"recalculate", i>>)
    IN  [ services |-> [services EXCEPT ![i] = after],
          task |-> IF raised
                   THEN [task EXCEPT !.i = i, !.pc = "failed", !.log = called]
                   ELSE [task EXCEPT !.i = i, !.pc = "awaiting",
                            !.log = Append(called, <<"refresh", i>>)] ]

NewTask(kind, duration, daylight) ==
    [ kind |-> kind, duration |-> duration, daylight |-> daylight,
      i |-> 0, pc |-> "started", log |-> <<>> ]

RegOnly == UNCHANGED <<ctlVars, fetchVars, schedVars, parseVars>>

\* the state when SolarEdgeSensorFactory is constructed in
\* async_setup_entry, at any moment of the day
RegInit ==
    /\ CtlIdle /\ FetchIdle /\ SchedIdle /\ ParseIdle
    /\ entry \in {[dynamic_update_interval |-> b] : b \in BOOLEAN}
    /\ \E l \in FactoryLimits, r \in FactoryRatios :
        all_services = NewFactory(l, r)
    /\ \E up \in BOOLEAN, left \in Remaining, dl \in DayLengths,
          nl \in NightLengths :
        sun = [ up |-> up, events |-> 0,
                to_sunset |-> IF up THEN left ELSE left + dl,
                to_sunrise |-> IF up THEN left + nl ELSE left ]
    /\ tasks = <<>>
    /\ entities = FALSE

\* async_setup_entry, lines 60-68 up to the first await of async_refresh
SetupEntry ==
    /\ tasks = <<>>
    /\ LET daylight == sun.up
           duration == get_event_duration(
                        IF daylight THEN "sunset" ELSE "sunrise")
           visit == Visit(NewTask("setup", duration, daylight),
                          all_services, 1)
       IN  /\ all_services' = visit.services
           /\ tasks' = <<visit.task>>
    /\ UNCHANGED <<entry, sun, entities>>
    /\ RegOnly

\* a task's awaited refresh completes; the task goes on to the next
\* service, or ends (the setup pass creates the sensors and adds them)
Resume(t) ==
    /\ tasks[t].pc = "awaiting"
    /\ IF tasks[t].i < Len(all_services)
       THEN LET visit == Visit(tasks[t], all_services, tasks[t].i + 1)
            IN  /\ all_services' = visit.services
                /\ tasks' = [tasks EXCEPT ![t] = visit.task]
                /\ UNCHANGED entities
       ELSE /\ tasks' = [tasks EXCEPT ![t].pc = "done"]
            /\ entities' = (entities \/ tasks[t].kind = "setup")
            /\ UNCHANGED all_services
    /\ UNCHANGED <<entry, sun>>
    /\ RegOnly

RefreshDone == \E t \in DOMAIN tasks : Resume(t)

\* the sun sets: sunset_callback runs up to its first await
SunsetEvent ==
    /\ tasks # <<>>
    /\ sun.up
    /\ sun.events < MaxSunEvents
    /\ \E nl \in NightLengths, dl \in DayLengths :
        /\ sun' = [ up |-> FALSE, events |-> sun.events + 1,
                    to_sunrise |-> nl, to_sunset |-> nl + dl ]
        /\ LET visit == Visit(NewTask("sunset", nl + dl, FALSE),
                              all_services, 1)
           IN  /\ all_services' = visit.services
               /\ tasks' = Append(tasks, visit.task)
    /\ UNCHANGED <<entry, entities>>
    /\ RegOnly

\* the sun rises: sunrise_callback runs up to its first await
SunriseEvent ==
    /\ tasks # <<>>
    /\ ~sun.up
    /\ sun.events < MaxSunEvents
    /\ \E dl \in DayLengths, nl \in NightLengths :
        /\ sun' = [ up |-> TRUE, events |-> sun.events + 1,
                    to_sunset |-> dl, to_sunrise |-> dl + nl ]
        /\ LET visit == Visit(NewTask("sunrise", dl + nl, TRUE),
                              all_services, 1)
           IN  /\ all_services' = visit.services
               /\ tasks' = Append(tasks, visit.task)
    /\ UNCHANGED <<entry, entities>>
    /\ RegOnly

RegNext == SetupEntry \/ RefreshDone \/ SunsetEvent \/ SunriseEvent

SpecReg == RegInit /\ [][RegNext]_vars

----------------------------------------------------------------------------
(* SpecSched: one feed's upstream fetches over time.  The coordinator's    *)
(* timer fires one update interval after the last refresh; the setup pass  *)
(* and every sun callback recalculate the interval and refresh at once.    *)

\* behaviours are followed for MaxDays days and MaxLog fetches a day
MaxDays == 2

MaxLog == 12

\* how long before the next sun event async_setup_entry runs
StartOffsets == {30 * Minute, 120 * Minute}

\* coordinator.async_refresh(), at time t: one upstream fetch
\* (async_update_data), after which the timer is set one update interval
\* ahead.  The log keeps the fetches of the 24 hours up to t.
async_refresh(p, t) ==
    LET Recent(x) == x > t - Day
    IN  [p EXCEPT
            !.now = t,
            !.log = Append(SelectSeq(p.log, Recent), t),
            !.timer = <<t + p.svc.coordinator[1].update_interval>>]

\* lines 178-180 for this feed: recalculate, then refresh
Transition(p, t, duration, daylight) ==
    async_refresh(
        [p EXCEPT !.svc = recalculate_update_interval(@, duration, daylight)],
        t)

SchedOnly == UNCHANGED <<ctlVars, fetchVars, regVars, parseVars>>

SchedInit ==
    /\ CtlIdle /\ FetchIdle /\ RegIdle /\ ParseIdle
    /\ \E l \in DailyLimits, r \in {0, 1, RatioDen - 1}, up \in BOOLEAN,
          left \in StartOffsets, dl \in DayLengths, nl \in NightLengths :
        poll = [ svc |-> NewService(l, r), now |-> 0, timer |-> None,
                 up |-> up,
                 sunset |-> IF up THEN left ELSE left + dl,
                 sunrise |-> IF up THEN left + nl ELSE left,
                 log |-> <<>> ]

Started == poll.svc.coordinator # None

NextSunEvent == IF poll.up THEN poll.sunset ELSE poll.sunrise

CanFetch == Len(poll.log) < MaxLog

\* async_setup_entry for this feed (lines 61-68): the startup prime pass
Startup ==
    /\ ~Started
    /\ poll' = Transition([poll EXCEPT !.svc = async_setup(@)], poll.now,
                          NextSunEvent - poll.now, poll.up)
    /\ SchedOnly

\* the coordinator's timer fires: a scheduled poll
TimerFire ==
    /\ Started /\ CanFetch
    /\ poll.timer # None
    /\ poll.timer[1] <= NextSunEvent
    /\ poll.timer[1] <= MaxDays * Day
    /\ poll' = async_refresh(poll, poll.timer[1])
    /\ SchedOnly

\* sunset_callback: the duration is the time to the next sunset
SchedSunset ==
    /\ Started /\ CanFetch
    /\ poll.up
    /\ poll.timer # None => poll.sunset <= poll.timer[1]
    /\ poll.sunset <= MaxDays * Day
    /\ \E dl \in DayLengths :
        LET next == poll.sunrise + dl
        IN  poll' = Transition([poll EXCEPT !.up = FALSE, !.sunset = next],
                               poll.sunset, next - poll.sunset, FALSE)
    /\ SchedOnly

\* sunrise_callback: the duration is the time to the next sunrise
SchedSunrise ==
    /\ Started /\ CanFetch
    /\ ~poll.up
    /\ poll.timer # None => poll.sunrise <= poll.timer[1]
    /\ poll.sunrise <= MaxDays * Day
    /\ \E nl \in NightLengths :
        LET next == poll.sunset + nl
        IN  poll' = Transition([poll EXCEPT !.up = TRUE, !.sunrise = next],
                               poll.sunrise, next - poll.sunrise, TRUE)
    /\ SchedOnly

SchedNext == Startup \/ TimerFire \/ SchedSunset \/ SchedSunrise

SpecSched == SchedInit /\ [][SchedNext]_vars

----------------------------------------------------------------------------
(* Claims about the interval controller, checked under SpecCtl *)

Skewed == service.daylight_update_limit_ratio # 0

LastCall == calls[Len(calls)]

StrictlyInsideDay(duration) == 0 < duration /\ duration < Day

\* C2: after recalculate(duration, daylight) on a service with a skew ratio
\* and 0 < duration < 1 day, round(duration / current interval, 5) is at most
\* the budget round(ratio * limit, 5) (daylight) or round((1 - ratio) * limit,
\* 5) (dark) the interval was derived from.  Stated where the quotient is
\* defined (a positive interval).
C2_PeriodBudgetKept ==
    (/\ Skewed
     /\ calls # <<>>
     /\ StrictlyInsideDay(LastCall.duration)
     /\ service.current_update_interval > 0)
    => UpdateCount(LastCall.duration, service.current_update_interval)
        <= UpdateLimit(service.daylight_update_limit_ratio,
                       service.daily_update_limit, LastCall.daylight)

\* C3: the sum bound.  After recalculate(d1, True) and then recalculate(d2,
\* False) with d1 + d2 = 1 day and both strictly inside the day, the two
\* rounded update counts d1 / interval_day and d2 / interval_night add up to
\* at most the daily limit.  Stated where both quotients are defined.
C3_SumWithinDailyLimit ==
    (/\ Skewed
     /\ Len(calls) = 2
     /\ calls[1].daylight /\ ~calls[2].daylight
     /\ calls[1].duration + calls[2].duration = Day
     /\ StrictlyInsideDay(calls[1].duration)
     /\ StrictlyInsideDay(calls[2].duration)
     /\ calls[1].interval > 0 /\ calls[2].interval > 0)
    => UpdateCount(calls[1].duration, calls[1].interval)
       + UpdateCount(calls[2].duration, calls[2].interval)
        <= service.daily_update_limit * Scale5

\* C4: a service with no skew ratio keeps the flat interval 1 day / limit,
\* and so does its coordinator, whatever recalculate calls are applied.
C4_NoSkewStaysFlat ==
    ~Skewed =>
        /\ service.current_update_interval
            = FlatInterval(service.daily_update_limit)
        /\ service.coordinator # None =>
            service.coordinator[1].update_interval
                = FlatInterval(service.daily_update_limit)

\* two recalculate calls with non-degenerate durations were applied to a
\* service with no skew ratio
C4_Witness ==
    /\ ~Skewed
    /\ Len(calls) = 2
    /\ StrictlyInsideDay(calls[1].duration) /\ calls[1].daylight
    /\ StrictlyInsideDay(calls[2].duration) /\ ~calls[2].daylight
    /\ service.coordinator # None

\* C5: on a service with a skew ratio, recalculate with a duration of exactly
\* one day or exactly zero sets the interval to the flat 1 day / limit, for
\* either value of daylight and from any prior interval.
C5_DegenerateResets ==
    (Skewed /\ calls # <<>> /\ LastCall.duration \in {0, Day})
    => service.current_update_interval
        = FlatInterval(service.daily_update_limit)

\* a whole-day dark call arrived while a skewed interval was in effect
C5_Witness ==
    /\ Skewed
    /\ Len(calls) = 2
    /\ calls[1].interval # FlatInterval(service.daily_update_limit)
    /\ calls[2].duration = Day /\ ~calls[2].daylight
    /\ service.current_update_interval
        = FlatInterval(service.daily_update_limit)

\* C6: the current interval is strictly positive in every reachable state.
C6_IntervalPositive == service.current_update_interval > 0

\* C7: once the coordinator exists, the interval it holds equals the
\* service's current interval between any two operations.
C7_CoordinatorInSync ==
    service.coordinator # None =>
        service.coordinator[1].update_interval
            = service.current_update_interval

\* a recalculate call moved a skewed service off the flat interval and the
\* coordinator holds the new interval
C7_Witness ==
    /\ Skewed
    /\ calls # <<>>
    /\ service.current_update_interval
        # FlatInterval(service.daily_update_limit)
    /\ service.current_update_interval > 0
    /\ service.coordinator # None
    /\ service.coordinator[1].update_interval
        = service.current_update_interval

\* section 4.1 applied to one (duration, daylight) pair: the flat interval
\* for a duration of zero or one day, else the duration divided by the
\* rounded share of the daily limit
FormulaInterval(ratio, limit, duration, daylight) ==
    IF duration = 0 \/ duration = Day
    THEN DivideAndRound(Day, 0, limit)
    ELSE DivideAndRound(duration, Ndigits,
            IF daylight
            THEN DivideAndRound(ratio * limit, Ndigits, RatioDen)
            ELSE DivideAndRound((RatioDen - ratio) * limit, Ndigits,
                                RatioDen))

----------------------------------------------------------------------------
(* Claims about fetch-and-parse, checked under SpecFetch *)

LastUpdate == last_update[1]

\* what readers of a feed see
Snapshot(self) ==
    [data |-> self.data, attributes |-> self.attributes, unit |-> self.unit]

\* some item of the response under one of the keys lacks the nested key
ItemLacks(items, keys, nested) ==
    \E i \in DOMAIN items :
        items[i][1] \in keys /\ nested \notin DOMAIN items[i][2]

\* the response lacks a key the overview parse reads
OverviewKeyMissing(response) ==
    \/ "overview" \notin DOMAIN response
    \/ ItemLacks(response["overview"], EnergyKeys, "energy")
    \/ ItemLacks(response["overview"], {"currentPower"}, "power")

\* the response lacks a key the power flow parse reads: the top-level key,
\* or, once connections are reported, unit, currentPower or status
PowerFlowKeyMissing(response) ==
    \/ "siteCurrentPowerFlow" \notin DOMAIN response
    \/ LET power_flow == response["siteCurrentPowerFlow"]
       IN  /\ HasKey(power_flow, "connections")
           /\ ConnectionsComplete(GetItem(power_flow, "connections"))
           /\ \/ ~HasKey(power_flow, "unit")
              \/ ItemLacks(power_flow, {"GRID", "STORAGE"}, "currentPower")
              \/ ItemLacks(power_flow, {"GRID", "STORAGE"}, "status")

\* the response lacks a key the energy-details parse reads: the top-level
\* key, or, once meters are reported, unit
EnergyDetailsKeyMissing(response) ==
    \/ "energyDetails" \notin DOMAIN response
    \/ /\ HasKey(response["energyDetails"], "meters")
       /\ ~HasKey(response["energyDetails"], "unit")

RequiredKeyMissing(kind, response) ==
    IF kind = "overview"
    THEN OverviewKeyMissing(response)
    ELSE IF kind = "energy_details"
    THEN EnergyDetailsKeyMissing(response)
    ELSE PowerFlowKeyMissing(response)

\* C8: when the response lacks a key the parse requires (the top-level feed
\* key or a nested energy, power, unit, currentPower or status), the fetch
\* fails and the feed's snapshot is exactly what it was before the fetch.
C8_MissingKeyLeavesSnapshot ==
    (last_update # None /\ RequiredKeyMissing(feed.kind, LastUpdate.response))
    => /\ LastUpdate.outcome # "ok"
       /\ Snapshot(feed) = Snapshot(LastUpdate.before)

\* the energy reported under a key of a complete overview response
Energy(response, key) == GetItem(response["overview"], key)["energy"]

OverviewComplete(response) ==
    /\ "overview" \in DOMAIN response
    /\ ~OverviewKeyMissing(response)

LifeTimeTooSmall(response) ==
    \E key \in {"lastYearData", "lastMonthData", "lastDayData"} :
        Energy(response, "lifeTimeData") < Energy(response, key)

AllZeroEnergy(response) ==
    \A key \in EnergyKeys : Energy(response, key) = 0

\* C9: an overview response whose life-time energy is smaller than its
\* last-year, last-month or last-day energy makes the fetch fail and leaves
\* the previous snapshot; a response whose four energies are all zero
\* succeeds and publishes the zeros.
C9_InconsistentEnergyRejected ==
    (/\ last_update # None
     /\ feed.kind = "overview"
     /\ OverviewComplete(LastUpdate.response))
    => /\ LifeTimeTooSmall(LastUpdate.response) =>
            /\ LastUpdate.outcome = "UpdateFailed"
            /\ Snapshot(feed) = Snapshot(LastUpdate.before)
       /\ AllZeroEnergy(LastUpdate.response) =>
            /\ LastUpdate.outcome = "ok"
            /\ \A key \in EnergyKeys : feed.data[key] = 0

\* the response carries the feed's top-level key but not its list: an
\* energy-details response without meters, a power flow response without
\* connections
ListMissing(kind, response) ==
    \/ /\ kind = "energy_details"
       /\ "energyDetails" \in DOMAIN response
       /\ ~HasKey(response["energyDetails"], "meters")
    \/ /\ kind = "power_flow"
       /\ "siteCurrentPowerFlow" \in DOMAIN response
       /\ ~HasKey(response["siteCurrentPowerFlow"], "connections")

\* C17: an energy-details response without meters, and a power flow
\* response without connections, end the fetch without error and leave the
\* feed's data, attributes and unit exactly as they were before the fetch.
C17_MissingListKeepsSnapshot ==
    (last_update # None /\ ListMissing(feed.kind, LastUpdate.response))
    => /\ LastUpdate.outcome = "ok"
       /\ Snapshot(feed) = Snapshot(LastUpdate.before)

\* an energy-details response without meters arrived while a snapshot
\* with values, attributes and a unit was being served
C17_Witness ==
    /\ last_update # None
    /\ feed.kind = "energy_details"
    /\ ListMissing(feed.kind, LastUpdate.response)
    /\ LastUpdate.before.data # EmptyDict
    /\ LastUpdate.before.attributes # EmptyDict
    /\ LastUpdate.before.unit # None
    /\ Snapshot(feed) = Snapshot(LastUpdate.before)

----------------------------------------------------------------------------
(* Claims about readers of a feed, checked under SpecParse *)

\* the snapshot the running update assembles, when it succeeds
NewSnapshot == OverviewUpdate(job.before, job.response)

\* C13: snapshot replacement is atomic for readers.  Whatever a sensor
\* reads during or after an update is the complete snapshot from before
\* the update or the complete new one, never an empty or partly filled
\* mapping.
C13_ReadersSeeWholeSnapshot ==
    seen # None =>
        \/ seen[1] = job.before.data
        \/ /\ NewSnapshot.outcome = "ok"
           /\ seen[1] = NewSnapshot.self.data

----------------------------------------------------------------------------
(* Claims about the sensor factory, checked under SpecReg *)

\* the recalculate calls a task has made
RecalculateCalls(task) ==
    {n \in DOMAIN task.log : task.log[n][1] = "recalculate"}

\* C10: with the dynamic update interval option disabled, no task ever
\* calls recalculate on a service, and every service keeps the flat interval
\* 1 day / limit whatever its ratio, through setup and the sun events.
C10_DisabledOptionKeepsFlat ==
    ~entry.dynamic_update_interval =>
        /\ \A t \in DOMAIN tasks : RecalculateCalls(tasks[t]) = {}
        /\ \A i \in DOMAIN all_services :
            /\ all_services[i].current_update_interval
                = FlatInterval(all_services[i].daily_update_limit)
            /\ all_services[i].coordinator # None =>
                all_services[i].coordinator[1].update_interval
                    = FlatInterval(all_services[i].daily_update_limit)

\* the most recently started task; a sun callback started last is the
\* callback of the last sun event, and sun holds the times from that event
LastTask == tasks[Len(tasks)]

\* C11: the pair a transition delivers is coherent.  The callback of a
\* sunset calls recalculate with daylight False and the time from the sunset
\* to the next sunrise; the callback of a sunrise with daylight True and the
\* time from the sunrise to the next sunset.
C11_TransitionPairCoherent ==
    tasks # <<>> =>
        /\ LastTask.kind = "sunset" =>
            /\ ~LastTask.daylight
            /\ LastTask.duration = sun.to_sunrise
        /\ LastTask.kind = "sunrise" =>
            /\ LastTask.daylight
            /\ LastTask.duration = sun.to_sunset

\* no setup pass or broadcast is in progress
Quiescent ==
    /\ tasks # <<>>
    /\ \A t \in DOMAIN tasks : tasks[t].pc \in {"done", "failed"}

\* C12: at a quiescent point every service with a skew ratio holds the
\* interval of the most recently delivered (duration, daylight) pair, also
\* when a sun event or the setup pass was delivered while an earlier pass
\* was suspended at a refresh.
C12_QuiescentSamePair ==
    Quiescent =>
        \A i \in DOMAIN all_services :
            ~RatioUnset(all_services[i]) =>
                all_services[i].current_update_interval
                    = NewInterval(all_services[i], LastTask.duration,
                                  LastTask.daylight)

\* the calls of a pass that visits the services 1..n in registration order:
\* recalculate, then the refresh request, service by service
RECURSIVE InOrder(_)
InOrder(n) ==
    IF n = 0
    THEN <<>>
    ELSE InOrder(n - 1) \o <<<<"recalculate", n>>, <<"refresh", n>>>>

\* a task no longer running: it returned or it raised
Ended(task) == task.pc \in {"done", "failed"}

\* C14: a transition broadcast visits every service of all_services exactly
\* once, in registration order; a service's recalculate completes before its
\* refresh is requested, and the refresh is requested before the next
\* service's recalculate starts.
C14_BroadcastVisitsAllInOrder ==
    \A t \in DOMAIN tasks :
        tasks[t].kind \in {"sunset", "sunrise"} =>
            IF Ended(tasks[t])
            THEN tasks[t].log = InOrder(Len(all_services))
            ELSE tasks[t].log = InOrder(tasks[t].i)

\* the setup pass is the first task started
SetupTask == tasks[1]

----------------------------------------------------------------------------
(* Claims about the polling of a feed, checked under SpecSched *)

\* C1: in every 24-hour window the upstream fetches made for the feed
\* (scheduled polls, the refresh of the startup pass and of every sun
\* callback) number at most the feed's daily limit.
C1_FetchesWithinDailyLimit ==
    poll # None => Len(poll.log) <= poll.svc.daily_update_limit

====
